---------------------------- MODULE Spec2Model ----------------------------
(***************************************************************************)
(* A model of OsqpSpline1dSolver                                           *)
(* (modules/planning/math/smoothing_spline/osqp_spline_1d_solver.cc).      *)
(*                                                                         *)
(* The object owns three raw pointers, settings_, data_ and work_, to      *)
(* blocks obtained from c_malloc, csc_matrix and osqp_setup.  The model    *)
(* keeps the heap as the sequence of every block ever allocated, each with *)
(* the number of times it was released, so that a leak (frees = 0 at       *)
(* destruction) and a double release (frees > 1) are both visible.         *)
(*                                                                         *)
(* Numbers.  c_float is an IEEE-754 binary floating-point type.  The model *)
(* counts values in units of kEpsilon and rounds every arithmetic result   *)
(* to the nearest value with a Prec-bit significand, ties to even.  The    *)
(* significand is narrower than the 53 bits of a double, and kUpperLimit   *)
(* is scaled down with it, so that TLC's integers can hold the values; the *)
(* rounding rule is the one the hardware applies.                          *)
(***************************************************************************)
EXTENDS Integers, Sequences, FiniteSets

\* ------------------------------------------------------------------ bounds
\* Calls (Solve, CleanUp, ResetOsqp, destructor) made on one object.
MaxCalls == 3
\* Rows of each constraint block in the assembly specification.
MaxRows == 2
\* Significand width of the modelled c_float.
Prec == 3
\* kUpperLimit is 2^LimitExp units of kEpsilon.
LimitExp == 5

\* ----------------------------------------------------------------- numbers
RECURSIVE Pow2(_)
Pow2(k) == IF k <= 0 THEN 1 ELSE 2 * Pow2(k - 1)

RECURSIVE BitLen(_)
BitLen(n) == IF n <= 0 THEN 0 ELSE 1 + BitLen(n \div 2)

Abs(x) == IF x < 0 THEN 0 - x ELSE x

\* Round to the nearest representable c_float, ties to even.
RoundFloat(x) ==
  LET a == Abs(x)
      k == BitLen(a) - Prec
  IN  IF k <= 0 THEN x
      ELSE LET q    == Pow2(k)
               lo   == a \div q
               r    == a % q
               half == q \div 2
               m    == IF r > half \/ (r = half /\ lo % 2 = 1) THEN lo + 1 ELSE lo
           IN  IF x < 0 THEN 0 - (m * q) ELSE m * q

\* constexpr float kEpsilon = 1e-9: the unit of the model's number line.
kEpsilon == 1
\* constexpr float kUpperLimit = 1e9.
kUpperLimit == Pow2(LimitExp)

\* ---------------------------------------------------------------- pointers
NullPtr == [tag |-> "null", id |-> 0]
\* The value of a pointer field of c_malloc'ed memory that was never written.
Indeterminate == [tag |-> "indeterminate", id |-> 0]
Block(i) == [tag |-> "block", id |-> i]

NewBlock(kind) == [kind |-> kind, frees |-> 0]

\* ------------------------------------------------------------------ inputs
Rows(M) == Len(M)

\* A constraint block (AffineConstraint): a matrix and a one-column boundary
\* with one entry per row of the matrix.
ConstraintBlock(matrix, boundary) == [matrix |-> matrix, boundary |-> boundary]

CoefRows == {<<1>>, <<2>>}
IneqBoundaries == {0 - 1, 2 * kUpperLimit}
EqTargets == {0, Pow2(Prec), Pow2(Prec + 1)}

SeqsUpTo(S, n) == UNION {[1..k -> S] : k \in 0..n}

BlocksOver(vals, n) ==
  {ConstraintBlock(m, b) : m \in SeqsUpTo(CoefRows, n), b \in SeqsUpTo(vals, n)}

Blocks(vals, n) == {blk \in BlocksOver(vals, n) : Len(blk.matrix) = Len(blk.boundary)}

\* kernel_.kernel_matrix(): empty, or 1x1.
Kernels == {<< >>, << <<2>> >>}


\* ------------------------------------------------------------------- state
VARIABLES
  pc,           \* "alive", "destroyed" (after the destructor) or "crashed"
  calls,        \* calls made on the object so far
  heap,         \* every block ever allocated: [kind, frees]
  settings_,    \* OSQPSettings* settings_
  data_,        \* OSQPData* data_
  work_,        \* OSQPWorkspace* work_
  settings_ok,  \* *settings_ holds the values written at construction
  data_P,       \* data_->P
  data_A,       \* data_->A
  prob,         \* data_->n, m, A, l, u as last handed to osqp_setup
  kernel_,      \* kernel_.kernel_matrix() at the last Solve()
  constraint_,  \* constraint_ at the last Solve()
  spline_,      \* what the spline segments were last set from
  last_num,     \* last_num_param_, last_num_constraint_
  call,         \* what the last Solve() did
  ub            \* kinds of undefined behaviour executed so far

vars == <<pc, calls, heap, settings_, data_, work_, settings_ok, data_P, data_A,
          prob, kernel_, constraint_, spline_, last_num, call, ub>>

NoCall ==
  [entered |-> FALSE, ret |-> "none", setup |-> "none", solve |-> "none", status |-> "none",
   x |-> "none", applied |-> FALSE, cfg |-> "none"]

NoProblem == [n |-> 0, m |-> 0, A |-> << >>, l |-> << >>, u |-> << >>]

EmptyBlock == ConstraintBlock(<< >>, << >>)

\* The constructor (c_malloc is taken to succeed): settings_ is allocated and
\* filled with alpha = 1.0, eps_abs = eps_rel = 1e-3, max_iter = 5000,
\* verbose = false, warm_start = true; data_ is allocated and left unwritten.
\* work_ starts as nullptr (its in-class initializer).
Init ==
  /\ pc = "alive"
  /\ calls = 0
  /\ heap = <<NewBlock("settings"), NewBlock("data")>>
  /\ settings_ = Block(1)
  /\ data_ = Block(2)
  /\ work_ = NullPtr
  /\ settings_ok = TRUE
  /\ data_P = Indeterminate
  /\ data_A = Indeterminate
  /\ prob = NoProblem
  /\ kernel_ = << >>
  /\ constraint_ = [ineq |-> EmptyBlock, eq |-> EmptyBlock]
  /\ spline_ = "init"
  /\ last_num = [param |-> 0, constraint |-> 0]
  /\ call = NoCall
  /\ ub = {}

\* ----------------------------------------------------------------- release
Freed(h, p) == p.tag = "block" /\ h[p.id].frees > 0

\* One release (c_free, or osqp_cleanup, which ignores a null workspace) of
\* the pointer p.  bad: the release was undefined behaviour.
Release(st, p) ==
  IF p.tag = "null" THEN [st EXCEPT !.bad = FALSE]
  ELSE IF p.tag = "indeterminate"
  THEN [st EXCEPT !.ub = @ \cup {"wild_free"}, !.bad = TRUE]
  ELSE IF st.heap[p.id].frees > 0
  THEN [heap |-> [st.heap EXCEPT ![p.id].frees = @ + 1],
        ub |-> st.ub \cup {"double_free"}, bad |-> TRUE]
  ELSE [heap |-> [st.heap EXCEPT ![p.id].frees = 1], ub |-> st.ub, bad |-> FALSE]

RECURSIVE ReleaseAll(_, _, _)
ReleaseAll(st, ptrs, n) ==
  IF n = 0 THEN st ELSE Release(ReleaseAll(st, ptrs, n - 1), ptrs[n])

\* The pointers CleanUp() releases, in its order.
CleanUpList ==
  <<work_>>
  \o (IF data_ # NullPtr THEN <<data_A, data_P, data_>> ELSE << >>)
  \o (IF settings_ # NullPtr THEN <<settings_>> ELSE << >>)

\* CleanUp(), run to its end (then the object is `after`), or stopped by the
\* crash of a release that was undefined behaviour.  No pointer is reset.
CleanUpBody(after) ==
  \E n \in 1..Len(CleanUpList) :
    LET st == ReleaseAll([heap |-> heap, ub |-> ub, bad |-> FALSE], CleanUpList, n)
        \* data_->A is read through data_, released or not.
        stale == n >= 2 /\ data_ # NullPtr /\ Freed(heap, data_)
    IN  /\ \/ n = Len(CleanUpList) /\ pc' = after
           \/ st.bad /\ pc' = "crashed"
        /\ heap' = st.heap
        /\ ub' = IF stale THEN st.ub \cup {"use_after_free"} ELSE st.ub
        /\ calls' = calls + 1
        /\ UNCHANGED <<settings_, data_, work_, settings_ok, data_P, data_A, prob,
                       kernel_, constraint_, spline_, last_num, call>>

CleanUp == pc = "alive" /\ CleanUpBody("alive")

Destructor == pc = "alive" /\ CleanUpBody("destroyed")

\* ResetOsqp(): two fresh allocations, nothing written to either.
ResetOsqp ==
  /\ pc = "alive"
  /\ heap' = heap \o <<NewBlock("settings"), NewBlock("data")>>
  /\ settings_' = Block(Len(heap) + 1)
  /\ data_' = Block(Len(heap) + 2)
  /\ settings_ok' = FALSE
  /\ data_P' = Indeterminate
  /\ data_A' = Indeterminate
  /\ calls' = calls + 1
  /\ UNCHANGED <<pc, work_, prob, kernel_, constraint_, spline_, last_num, call, ub>>

\* ------------------------------------------------------------------- Solve
IsEmptyNeverChecked(M) == FALSE

\* if (P.rows() == 0) / if (A.rows() == 0)
IsEmpty(M) == Rows(M) = 0

StackRowsEqualityFirst(ineqMatrix, eqMatrix) == eqMatrix \o ineqMatrix

\* MatrixXd A(ineq.rows() + eq.rows(), ineq.cols()); A << ineq, eq;
StackRows(ineqMatrix, eqMatrix) == ineqMatrix \o eqMatrix

\* int constraint_num = ineq_boundary.rows() + eq_boundary.rows();
ConstraintNum(ineqBoundary, eqBoundary) == Rows(ineqBoundary) + Rows(eqBoundary)

\* l[i] = inequality_constraint_boundary(i, 0);  u[i] = kUpperLimit;
\* (a double stored in a c_float, itself a double: no rounding)
IneqLower(b) == b
IneqUpperAboveBoundary(b) == IF b > kUpperLimit THEN b ELSE kUpperLimit
IneqUpper(b) == kUpperLimit

EqLowerWithoutEpsilon(t) == RoundFloat(t)
\* l[i] = equality_constraint_boundary(idx, 0) - kEpsilon;
EqLower(t) == RoundFloat(t - kEpsilon)
\* u[i] = equality_constraint_boundary(idx, 0) + kEpsilon;
EqUpper(t) == RoundFloat(t + kEpsilon)

\* The loop over i in [0, constraint_num); rows are numbered from 1 here.
LowerBounds(ineqBoundary, eqBoundary) ==
  [i \in 1..ConstraintNum(ineqBoundary, eqBoundary) |->
     IF i <= Rows(ineqBoundary)
     THEN IneqLower(ineqBoundary[i])
     ELSE EqLower(eqBoundary[i - Rows(ineqBoundary)])]

UpperBounds(ineqBoundary, eqBoundary) ==
  [i \in 1..ConstraintNum(ineqBoundary, eqBoundary) |->
     IF i <= Rows(ineqBoundary)
     THEN IneqUpper(ineqBoundary[i])
     ELSE EqUpper(eqBoundary[i - Rows(ineqBoundary)])]

\* work_->solution->x after osqp_solve: the converged iterate, the last
\* iterate when max_iter was reached, NaN when the problem is infeasible.
SolutionOf(status) ==
  CASE status = "solved" -> "converged"
    [] status = "max_iter_reached" -> "unconverged"
    [] OTHER -> "nan"

Statuses == {"solved", "max_iter_reached", "infeasible"}

\* spline_.SetSplineSegs(solved_params, order): stores the parameters and
\* returns true when their number fits the knots, else stores nothing.
SetSplineSegs(segs, x, fits) == IF fits THEN x ELSE segs

\* return false before anything is built.
SolveReturnsEarly ==
  /\ call' = [NoCall EXCEPT !.entered = TRUE, !.ret = "false"]
  /\ UNCHANGED <<pc, heap, settings_, data_, work_, settings_ok, data_P, data_A,
                 prob, spline_, last_num, ub>>

\* The rest of Solve(), from the writes through data_ on.
\*   setupOk: osqp_setup returns a workspace (else null)
\*   status:  what osqp_solve reports
\*   fits:    SetSplineSegs accepts the parameters
\*   crash:   "none", "write" (the writes through a released data_ stop the
\*            program) or "deref" (reading through a null work_ stops it)
SolveBuilds(P, A, ineq, eq, setupOk, status, fits, crash) ==
  LET stale   == Freed(heap, data_) \/ Freed(heap, settings_)
      ub1     == IF stale THEN ub \cup {"use_after_free"} ELSE ub
      ub2     == IF settings_ok THEN ub1 ELSE ub1 \cup {"uninit_read"}
      k       == Len(heap)
      csc     == <<NewBlock("csc"), NewBlock("csc")>>
      m       == ConstraintNum(ineq.boundary, eq.boundary)
      cfg     == IF settings_ok THEN "documented" ELSE "indeterminate"
      x       == IF setupOk THEN SolutionOf(status) ELSE "garbage"
      setup   == IF setupOk THEN "work" ELSE "null"
  IN  IF crash = "write"
      THEN /\ stale
           /\ pc' = "crashed"
           /\ ub' = ub1
           /\ call' = [NoCall EXCEPT !.entered = TRUE]
           /\ UNCHANGED <<heap, settings_, data_, work_, settings_ok, data_P,
                          data_A, prob, spline_, last_num>>
      ELSE /\ data_P' = Block(k + 1)
           /\ data_A' = Block(k + 2)
           /\ prob' = [n |-> Rows(P), m |-> m, A |-> A,
                       l |-> LowerBounds(ineq.boundary, eq.boundary),
                       u |-> UpperBounds(ineq.boundary, eq.boundary)]
           /\ heap' = heap \o csc \o (IF setupOk THEN <<NewBlock("work")>> ELSE << >>)
           /\ work_' = IF setupOk THEN Block(k + 3) ELSE NullPtr
           /\ UNCHANGED <<settings_, data_, settings_ok>>
           /\ IF crash = "deref"
              THEN /\ ~setupOk
                   /\ pc' = "crashed"
                   /\ ub' = ub2 \cup {"null_deref"}
                   /\ call' = [NoCall EXCEPT !.entered = TRUE, !.setup = setup,
                                             !.solve = setup, !.cfg = cfg]
                   /\ UNCHANGED <<spline_, last_num>>
              ELSE /\ pc' = pc
                   /\ ub' = IF setupOk THEN ub2 ELSE ub2 \cup {"null_deref"}
                   /\ spline_' = SetSplineSegs(spline_, x, fits)
                   /\ last_num' = [param |-> Rows(P), constraint |-> m]
                   /\ call' = [entered |-> TRUE,
                               ret |-> IF fits THEN "true" ELSE "false",
                               setup |-> setup, solve |-> setup,
                               status |-> IF setupOk THEN status ELSE "none",
                               x |-> x, applied |-> fits, cfg |-> cfg]

\* bool Solve(), on the kernel and the constraints the caller has set.
Solve(Ps, Ineqs, Eqs) ==
  /\ pc = "alive"
  /\ \E P \in Ps, ineq \in Ineqs, eq \in Eqs :
       /\ kernel_' = P
       /\ constraint_' = [ineq |-> ineq, eq |-> eq]
       /\ calls' = calls + 1
       /\ IF IsEmpty(P)
          THEN SolveReturnsEarly
          ELSE LET A == StackRows(ineq.matrix, eq.matrix)
               IN  IF IsEmpty(A)
                   THEN SolveReturnsEarly
                   ELSE \E setupOk \in BOOLEAN, status \in Statuses,
                           fits \in BOOLEAN, crash \in {"none", "write", "deref"} :
                          SolveBuilds(P, A, ineq, eq, setupOk, status, fits, crash)

\* ---------------------------------------------------------- specifications
\* The object's life: any MaxCalls calls, on small problems.
OneRow(vals) == Blocks(vals, 1)

Budget(limit) == calls < limit

Next ==
  \/ Budget(MaxCalls) /\ Solve(Kernels, OneRow({0}), OneRow({0}))
  \/ Budget(MaxCalls) /\ CleanUp
  \/ Budget(MaxCalls) /\ ResetOsqp
  \/ Budget(MaxCalls) /\ Destructor

Spec == Init /\ [][Next]_vars

\* The assembly of one problem: the first call on a fresh object, over every
\* pair of constraint blocks of at most MaxRows rows.
NextAssemble ==
  \/ calls = 0 /\ Solve(Kernels, Blocks(IneqBoundaries, MaxRows), Blocks(EqTargets, MaxRows))
  \/ calls = 0 /\ CleanUp
  \/ calls = 0 /\ ResetOsqp
  \/ calls = 0 /\ Destructor

SpecAssemble == Init /\ [][NextAssemble]_vars

\* ------------------------------------------------------------------ claims
LiveCount(kind) ==
  Cardinality({i \in 1..Len(heap) : heap[i].kind = kind /\ heap[i].frees = 0})

HandedToSolver == call.setup # "none"

IneqRows == Len(constraint_.ineq.matrix)
EqRows == Len(constraint_.eq.matrix)

\* C1: every osqp_setup, with the csc P/A buffers allocated beside it, is
\* cleaned up before the next osqp_setup or before destruction: at most one
\* workspace (and one P/A pair) is live at any time, none after destruction.
\* Stated of the runs in which nothing undefined has been executed.
C1_SetupMatchedByCleanup ==
  ub = {} =>
    /\ LiveCount("work") <= 1
    /\ LiveCount("csc") <= 2
    /\ pc = "destroyed" => LiveCount("work") = 0 /\ LiveCount("csc") = 0

\* C2: every allocated resource is released exactly once: never twice, never
\* a release of a pointer that was not set up, and none left at destruction.
C2_ReleasedExactlyOnce ==
  /\ \A i \in 1..Len(heap) : heap[i].frees <= 1
  /\ "wild_free" \notin ub
  /\ pc = "destroyed" => \A i \in 1..Len(heap) : heap[i].frees = 1

\* C3: when the solver reports non-convergence or infeasibility, Solve()
\* returns false and the spline segments are not set from the solver's vector.
\* Stated of the runs in which nothing undefined has been executed.
C3_FailureNotApplied ==
  (ub = {} /\ call.status \in {"max_iter_reached", "infeasible"}) =>
    call.ret = "false" /\ ~call.applied

\* C4: when osqp_setup yields no workspace, Solve() returns false, osqp_solve
\* is not invoked on the missing workspace, no solution is read from it and
\* the spline segments are left unchanged.
C4_SetupFailureSurfaced ==
  call.setup = "null" =>
    /\ call.solve # "null"
    /\ call.x = "none"
    /\ call.ret = "false"
    /\ ~call.applied

\* C5: when the cost matrix has zero rows, or the stacked constraint matrix
\* has zero rows, Solve() returns false, neither osqp_setup nor osqp_solve
\* is invoked, no solution is read and the spline segments are not set.
C5_EmptyProblemFailsFast ==
  (call.entered /\ (Len(kernel_) = 0 \/ IneqRows + EqRows = 0)) =>
    /\ call.ret = "false"
    /\ call.setup = "none"
    /\ call.solve = "none"
    /\ call.x = "none"
    /\ ~call.applied

\* A Solve() on a non-empty cost matrix with no constraint row has returned
\* false on an object whose earlier Solve() had set up a workspace.
C5_Witness ==
  /\ call.entered
  /\ Len(kernel_) > 0
  /\ IneqRows + EqRows = 0
  /\ call.ret = "false"
  /\ work_ # NullPtr

\* C6: in every problem handed to the solver, l[i] <= u[i] for every row i.
C6_LowerNotAboveUpper ==
  HandedToSolver => \A i \in 1..prob.m : prob.l[i] <= prob.u[i]

C8_InequalityBounds ==
  HandedToSolver =>
    \A i \in 1..IneqRows :
      /\ prob.l[i] = constraint_.ineq.boundary[i]
      /\ prob.u[i] = kUpperLimit

\* A problem was handed to the solver with an inequality boundary below
\* kUpperLimit and another above it.
C8_Witness ==
  /\ HandedToSolver
  /\ \E i \in 1..IneqRows : constraint_.ineq.boundary[i] < kUpperLimit
  /\ \E i \in 1..IneqRows : constraint_.ineq.boundary[i] > kUpperLimit

\* C9, as claimed: for every equality row, upper - lower = 2 * kEpsilon
\* exactly and (upper + lower) / 2 = target.
C9_ExactWidthAndMidpoint ==
  HandedToSolver =>
    \A j \in 1..EqRows :
      LET t == constraint_.eq.boundary[j]
          l == prob.l[IneqRows + j]
          u == prob.u[IneqRows + j]
      IN  u - l = 2 * kEpsilon /\ u + l = 2 * t

\* C9, amended: for every equality row, lower and upper are target - kEpsilon
\* and target + kEpsilon rounded to the nearest c_float: lower <= target <=
\* upper, each within 2 * kEpsilon of the target, and the width is exactly
\* 2 * kEpsilon with the target at the midpoint when target - kEpsilon and
\* target + kEpsilon are both representable.
C9_RoundedWidthAndMidpoint ==
  HandedToSolver =>
    \A j \in 1..EqRows :
      LET t == constraint_.eq.boundary[j]
          l == prob.l[IneqRows + j]
          u == prob.u[IneqRows + j]
      IN  /\ l <= t /\ t <= u
          /\ t - l <= 2 * kEpsilon
          /\ u - t <= 2 * kEpsilon
          /\ (RoundFloat(t - kEpsilon) = t - kEpsilon
              /\ RoundFloat(t + kEpsilon) = t + kEpsilon)
             => (u - l = 2 * kEpsilon /\ u + l = 2 * t)

\* A problem was handed to the solver with one equality row whose bounds are
\* exact and one whose bounds were rounded.
C9_Witness ==
  /\ HandedToSolver
  /\ \E j \in 1..EqRows :
       prob.u[IneqRows + j] - prob.l[IneqRows + j] = 2 * kEpsilon
  /\ \E j \in 1..EqRows :
       prob.u[IneqRows + j] - prob.l[IneqRows + j] # 2 * kEpsilon

\* C10: every solver invocation runs with the configuration written at
\* construction, ResetOsqp() leaves it set, and no settings_/data_ block is
\* dropped unreleased.
C10_ConfigurationKept ==
  /\ call.cfg # "indeterminate"
  /\ settings_ok
  /\ \A i \in 1..Len(heap) :
       (heap[i].kind \in {"settings", "data"} /\ heap[i].frees = 0)
         => Block(i) \in {settings_, data_}

=============================================================================
